---- MODULE Spec2Model ----
(***************************************************************************)
(* A model of wordle-tui (src/src/main.rs): the App struct, the run loop,  *)
(* the key handlers, submit_guess (the two scoring passes and the          *)
(* knowledge base update), color_from_known_information and the tail of    *)
(* main that records the day as played.                                    *)
(*                                                                         *)
(* A char is its Unicode code point (an integer); a String is a sequence   *)
(* of chars.  String::len, as_bytes and char_indices are computed from the *)
(* UTF-8 encoding, so a character of more than one byte counts as the code *)
(* counts it.                                                              *)
(***************************************************************************)
EXTENDS Integers, Sequences, FiniteSets, TLC

VARIABLES
    solution,             \* App.solution: String
    word_list,            \* App.word_list: HashSet<String>
    guesses,              \* App.guesses: Vec<Vec<(char, Option<LetterPosition>)>>
    known_positions,      \* App.known_positions: HashMap<HashedLetterIndex, LetterPosition>
    bad_characters,       \* App.bad_characters: HashSet<char>
    current_guess_input,  \* App.current_guess_input: String
    exit,                 \* App.exit: bool
    key_event,            \* the event handle_events read last
    pc,                   \* where main is: "run", "done" or "panicked"
    play_state_written    \* whether main wrote .play.state.txt

vars == <<solution, word_list, guesses, known_positions, bad_characters,
          current_guess_input, exit, key_event, pc, play_state_written>>

(***************************************************************************)
(* Program constants.                                                      *)
(***************************************************************************)
WordLen == 5

MaxGuesses == 6

(***************************************************************************)
(* Characters and strings.                                                 *)
(***************************************************************************)
\* the code points of the characters the model types and spells words with
Char == [A |-> 65, B |-> 66, C |-> 67, L |-> 76, M |-> 77, O |-> 79, Y |-> 89,
         a |-> 97, b |-> 98, c |-> 99, digit1 |-> 49, e_acute |-> 233]

\* Option<LetterPosition>
OptNone == "None"
SomeNone == "Some(None)"
SomeWrongPlacement == "Some(WrongPlacement)"
SomeCorrect == "Some(Correct)"

\* the non-ASCII code points of the model that have the Alphabetic property
NonAsciiAlphabetic == {Char.e_acute}

is_alphabetic(c) == c \in 65..90 \/ c \in 97..122 \/ c \in NonAsciiAlphabetic

to_ascii_uppercase(c) == IF c \in 97..122 THEN c - 32 ELSE c

to_ascii_lowercase(b) == IF b \in 65..90 THEN b + 32 ELSE b

len_utf8(c) == IF c < 128 THEN 1 ELSE IF c < 2048 THEN 2 ELSE IF c < 65536 THEN 3 ELSE 4

encode_utf8(c) ==
    IF c < 128 THEN <<c>>
    ELSE IF c < 2048 THEN <<192 + (c \div 64), 128 + (c % 64)>>
    ELSE IF c < 65536 THEN <<224 + (c \div 4096), 128 + ((c \div 64) % 64), 128 + (c % 64)>>
    ELSE <<240 + (c \div 262144), 128 + ((c \div 4096) % 64),
           128 + ((c \div 64) % 64), 128 + (c % 64)>>

RECURSIVE as_bytes(_)
as_bytes(s) == IF s = <<>> THEN <<>> ELSE encode_utf8(Head(s)) \o as_bytes(Tail(s))

\* String::len: the length in bytes
StrLen(s) == Len(as_bytes(s))

\* str::char_indices: (byte offset, char) of every char
char_indices(s) == [k \in 1..Len(s) |-> <<StrLen(SubSeq(s, 1, k - 1)), s[k]>>]

\* letter as u8
as_u8(c) == c % 256

\* str::contains(char)
contains_letter(sol, letter) == \E k \in 1..Len(sol) : sol[k] = letter

\* s.chars().filter(|c| c == &letter).count()
count_chars(s, letter) == Cardinality({k \in 1..Len(s) : s[k] = letter})

eq_ignore_ascii_case(a, b) ==
    LET x == as_bytes(a)
        y == as_bytes(b)
    IN  /\ Len(x) = Len(y)
        /\ \A k \in 1..Len(x) : to_ascii_lowercase(x[k]) = to_ascii_lowercase(y[k])

(***************************************************************************)
(* submit_guess: scoring.                                                  *)
(* The state of the two loops is [parsed, bad, panic]: parsed_guess,       *)
(* bad_characters and whether an index went out of bounds.                 *)
(***************************************************************************)
\* g.chars().map(|c| (c, None)).collect()
parse_guess(g) == [k \in 1..Len(g) |-> <<g[k], OptNone>>]

\* parsed_guess.iter().filter(|(c, m)| c == &letter && m.is_some()).count()
existing_letter_occurrences(parsed, letter) ==
    Cardinality({k \in 1..Len(parsed) : parsed[k][1] = letter /\ parsed[k][2] # OptNone})

\* a faulty variant: the occurrences already credited are not counted
has_unclaimed_occurrence_uncounted(sol, parsed, letter) == count_chars(sol, letter) > 0

\* a faulty variant: >= for >
has_unclaimed_occurrence_off_by_one(sol, parsed, letter) ==
    count_chars(sol, letter) >= existing_letter_occurrences(parsed, letter)

\* solution_letter_occurrences > existing_letter_occurrences
has_unclaimed_occurrence(sol, parsed, letter) ==
    count_chars(sol, letter) > existing_letter_occurrences(parsed, letter)

\* parsed_guess[index].1 = Some(position), which panics when index is out of bounds
set_position(st, index, position) ==
    IF index >= Len(st.parsed) THEN [st EXCEPT !.panic = TRUE]
    ELSE [st EXCEPT !.parsed[index + 1] = <<@[1], position>>]

\* self.solution.as_bytes()[index] is in bounds
solution_byte_in_bounds(sol_bytes, index) == index < Len(sol_bytes)

\* self.solution.as_bytes()[index] == letter as u8
is_exact_match(sol_bytes, index, letter) == sol_bytes[index + 1] = as_u8(letter)

\* one iteration of the first loop
first_pass_step(sol, sol_bytes, st, index, letter) ==
    IF ~contains_letter(sol, letter) THEN [st EXCEPT !.bad = @ \cup {letter}]
    ELSE IF ~solution_byte_in_bounds(sol_bytes, index) THEN [st EXCEPT !.panic = TRUE]
    ELSE IF is_exact_match(sol_bytes, index, letter) THEN set_position(st, index, SomeCorrect)
    ELSE st

\* a faulty variant: the second loop does not skip the exact matches
second_pass_step_no_exact_skip(sol, sol_bytes, st, index, letter) ==
    IF ~contains_letter(sol, letter) THEN st
    ELSE IF ~solution_byte_in_bounds(sol_bytes, index) THEN [st EXCEPT !.panic = TRUE]
    ELSE IF has_unclaimed_occurrence(sol, st.parsed, letter)
         THEN set_position(st, index, SomeWrongPlacement)
    ELSE st

\* one iteration of the second loop
second_pass_step(sol, sol_bytes, st, index, letter) ==
    IF ~contains_letter(sol, letter) THEN st
    ELSE IF ~solution_byte_in_bounds(sol_bytes, index) THEN [st EXCEPT !.panic = TRUE]
    ELSE IF is_exact_match(sol_bytes, index, letter) THEN st
    ELSE IF has_unclaimed_occurrence(sol, st.parsed, letter)
         THEN set_position(st, index, SomeWrongPlacement)
    ELSE st

RECURSIVE first_pass(_, _, _, _, _)
first_pass(sol, sol_bytes, ci, k, st) ==
    IF k > Len(ci) \/ st.panic THEN st
    ELSE first_pass(sol, sol_bytes, ci, k + 1,
                    first_pass_step(sol, sol_bytes, st, ci[k][1], ci[k][2]))

RECURSIVE second_pass(_, _, _, _, _)
second_pass(sol, sol_bytes, ci, k, st) ==
    IF k > Len(ci) \/ st.panic THEN st
    ELSE second_pass(sol, sol_bytes, ci, k + 1,
                     second_pass_step(sol, sol_bytes, st, ci[k][1], ci[k][2]))

\* both loops over g.char_indices(), from parsed_guess all None
score_guess(sol, g, bad) ==
    LET ci == char_indices(g)
        sol_bytes == as_bytes(sol)
        st0 == [parsed |-> parse_guess(g), bad |-> bad, panic |-> FALSE]
    IN  second_pass(sol, sol_bytes, ci, 1, first_pass(sol, sol_bytes, ci, 1, st0))

(***************************************************************************)
(* submit_guess: the knowledge base.                                       *)
(***************************************************************************)
\* a faulty variant: the position is dropped from the key
hashed_letter_index_no_position(letter, pos) == <<letter, 0>>

\* From<(char, usize)> for HashedLetterIndex: Self(letter, pos as u8)
hashed_letter_index(letter, pos) == <<letter, pos % 256>>

\* HashMap::insert, which overwrites
map_insert(m, key, value) ==
    [x \in DOMAIN m \cup {key} |-> IF x = key THEN value ELSE m[x]]

\* a faulty variant: a WrongPlacement is stored as Correct
unwrap_position_as_correct(opt) ==
    CASE opt = SomeCorrect -> "Correct"
      [] opt = SomeWrongPlacement -> "Correct"
      [] OTHER -> "None"

\* Option<LetterPosition> -> LetterPosition of a Some
unwrap_position(opt) ==
    CASE opt = SomeCorrect -> "Correct"
      [] opt = SomeWrongPlacement -> "WrongPlacement"
      [] OTHER -> "None"

\* a faulty variant: every entry is inserted, an unscored one as LetterPosition::None
is_learned_always(entry) == TRUE

\* filter_map(|(i, &(l, pos_opt))| pos_opt.map(|pos| (i, (l, pos))))
is_learned(entry) == entry[2] # OptNone

RECURSIVE learn_positions(_, _, _)
learn_positions(known, parsed, i) ==
    IF i > Len(parsed) THEN known
    ELSE learn_positions(
             IF is_learned(parsed[i])
             THEN map_insert(known, hashed_letter_index(parsed[i][1], i - 1),
                             unwrap_position(parsed[i][2]))
             ELSE known,
             parsed, i + 1)

\* a faulty variant: insert(0, parsed_guess) for push
push_guess_front(gs, parsed) == <<parsed>> \o gs

\* self.guesses.push(parsed_guess)
push_guess(gs, parsed) == Append(gs, parsed)

\* a faulty variant: the limit of six guesses is not tested
session_ends_without_limit(sol, g, n_guesses) == eq_ignore_ascii_case(sol, g)

\* a faulty variant: the limit is tested one guess late
session_ends_one_late(sol, g, n_guesses) ==
    eq_ignore_ascii_case(sol, g) \/ n_guesses = MaxGuesses + 1

\* self.solution.eq_ignore_ascii_case(&g) || self.guesses.len() == 6
session_ends(sol, g, n_guesses) == eq_ignore_ascii_case(sol, g) \/ n_guesses = MaxGuesses

\* a faulty variant: the word list is not consulted
submit_rejects_length_only(input, wl) == StrLen(input) # WordLen

\* the guard that makes submit_guess return at once
submit_rejects(input, wl) == StrLen(input) # WordLen \/ input \notin wl

(***************************************************************************)
(* color_from_known_information.                                           *)
(***************************************************************************)
\* a faulty variant: get(..).copied().or(Some(LetterPosition::None))
map_get_or_none(m, key) ==
    IF key \in DOMAIN m THEN
        (IF m[key] = "Correct" THEN SomeCorrect
         ELSE IF m[key] = "WrongPlacement" THEN SomeWrongPlacement ELSE SomeNone)
    ELSE SomeNone

\* HashMap::get(..).copied()
map_get(m, key) ==
    IF key \in DOMAIN m THEN
        (IF m[key] = "Correct" THEN SomeCorrect
         ELSE IF m[key] = "WrongPlacement" THEN SomeWrongPlacement ELSE SomeNone)
    ELSE OptNone

\* a faulty variant: bad_characters is not consulted
known_information_by_position_only(bad, known, input_index, input_char) ==
    map_get(known, hashed_letter_index(input_char, input_index))

\* the first closure: the Option<LetterPosition> of one char at one byte offset
known_information(bad, known, input_index, input_char) ==
    IF input_char \in bad THEN SomeNone
    ELSE map_get(known, hashed_letter_index(input_char, input_index))

color_from_known_information(bad, known, input) ==
    LET ci == char_indices(input)
    IN  [k \in 1..Len(input) |-> <<ci[k][2], known_information(bad, known, ci[k][1], ci[k][2])>>]

(***************************************************************************)
(* The session: main's construction of App, the run loop, the handlers.    *)
(***************************************************************************)
Word(c1, c2, c3, c4, c5) == <<c1, c2, c3, c4, c5>>

\* all_correct: guess.iter().all(|(_, p)| p == &Some(LetterPosition::Correct))
all_correct(guess) == \A k \in 1..Len(guess) : guess[k][2] = SomeCorrect

\* The solution of the day and the word list main hands to App.  The list
\* fetched is upper-cased; the list read back from .word-list.cache.txt is
\* used as it was written, which is as it was fetched.
Sessions ==
    { [solution |-> Word(Char.B, Char.B, Char.A, Char.B, Char.B),
       word_list |-> { Word(Char.B, Char.B, Char.A, Char.B, Char.B),
                       Word(Char.A, Char.A, Char.C, Char.B, Char.B),
                       Word(Char.C, Char.A, Char.B, Char.A, Char.A) }],
      [solution |-> Word(Char.A, Char.B, Char.C, Char.A, Char.B),
       word_list |-> { Word(Char.A, Char.B, Char.C, Char.A, Char.B),
                       Word(Char.A, Char.A, Char.C, Char.C, Char.C) }],
      [solution |-> Word(Char.B, Char.B, Char.A, Char.B, Char.B),
       word_list |-> { Word(Char.b, Char.b, Char.a, Char.b, Char.b),
                       Word(Char.a, Char.a, Char.c, Char.b, Char.b) }] }

\* the characters a KeyCode::Char event carries
Keys == {Char.A, Char.B, Char.C, Char.a, Char.digit1, Char.e_acute}

Init ==
    /\ \E s \in Sessions :
          /\ solution = s.solution
          /\ word_list = s.word_list
    /\ guesses = <<>>
    /\ known_positions = <<>>
    /\ bad_characters = {}
    /\ current_guess_input = <<>>
    /\ exit = FALSE
    /\ key_event = "None"
    /\ pc = "run"
    /\ play_state_written = FALSE

\* a faulty variant: loop { .. } for while !self.exit
run_loop_continues_always(ex) == TRUE

\* while !self.exit
run_loop_continues(ex) == ~ex

\* an iteration of the loop of run is about to read an event
Dispatching == pc = "run" /\ run_loop_continues(exit)

\* modifiers == CONTROL && code == Char('c')
CtrlC ==
    /\ Dispatching
    /\ key_event' = "CtrlC"
    /\ exit' = TRUE
    /\ UNCHANGED <<solution, word_list, guesses, known_positions, bad_characters,
                   current_guess_input, pc, play_state_written>>

\* a faulty variant: remove(0) for pop
pop_front(s) == IF s = <<>> THEN s ELSE Tail(s)

\* String::pop
pop(s) == IF s = <<>> THEN s ELSE SubSeq(s, 1, Len(s) - 1)

\* KeyCode::Backspace
Backspace ==
    /\ Dispatching
    /\ key_event' = "Backspace"
    /\ current_guess_input' = pop(current_guess_input)
    /\ UNCHANGED <<solution, word_list, guesses, known_positions, bad_characters,
                   exit, pc, play_state_written>>

\* self.current_guess_input.len() < 5 && c.is_alphabetic()
accepts_char(input, c) == StrLen(input) < WordLen /\ is_alphabetic(c)

\* KeyCode::Char(c)
TypeChar ==
    /\ Dispatching
    /\ \E c \in Keys :
          current_guess_input' =
              IF accepts_char(current_guess_input, c)
              THEN Append(current_guess_input, to_ascii_uppercase(c))
              ELSE current_guess_input
    /\ key_event' = "Char"
    /\ UNCHANGED <<solution, word_list, guesses, known_positions, bad_characters,
                   exit, pc, play_state_written>>

\* submit_guess, from its guard to its last line
submit_guess ==
    IF submit_rejects(current_guess_input, word_list)
    THEN UNCHANGED <<guesses, known_positions, bad_characters, current_guess_input,
                     exit, pc>>
    ELSE \* st: parsed_guess and bad_characters after the two loops, computed once
         \E st \in {score_guess(solution, current_guess_input, bad_characters)} :
         LET g == current_guess_input   \* mem::take
         IN  /\ current_guess_input' = <<>>
             /\ bad_characters' = st.bad
             /\ IF st.panic
                THEN /\ pc' = "panicked"
                     /\ UNCHANGED <<guesses, known_positions, exit>>
                ELSE /\ known_positions' = learn_positions(known_positions, st.parsed, 1)
                     /\ guesses' = push_guess(guesses, st.parsed)
                     /\ exit' = (exit \/ session_ends(solution, g, Len(guesses')))
                     /\ pc' = pc

\* KeyCode::Enter
Enter ==
    /\ Dispatching
    /\ key_event' = "Enter"
    /\ submit_guess
    /\ UNCHANGED <<solution, word_list, play_state_written>>

\* an event that is no key press, or a key no arm of the match names
OtherEvent ==
    /\ Dispatching
    /\ key_event' = "Other"
    /\ UNCHANGED <<solution, word_list, guesses, known_positions, bad_characters,
                   current_guess_input, exit, pc, play_state_written>>

\* a faulty variant: !emojis.is_empty() for the test of a finished session
day_is_played_any(gs) == gs # <<>>

\* emojis.len() == 6 || app.guesses.last().is_some_and(all Correct)
day_is_played(gs) == Len(gs) = MaxGuesses \/ (gs # <<>> /\ all_correct(gs[Len(gs)]))

\* run has returned: main prints the emojis and records the day
AfterRun ==
    /\ pc = "run"
    /\ ~run_loop_continues(exit)
    /\ pc' = "done"
    /\ play_state_written' = day_is_played(guesses)
    /\ UNCHANGED <<solution, word_list, guesses, known_positions, bad_characters,
                   current_guess_input, exit, key_event>>

Next == CtrlC \/ Backspace \/ TypeChar \/ Enter \/ OtherEvent \/ AfterRun

Spec == Init /\ [][Next]_vars

(***************************************************************************)
(* Hash for HashedLetterIndex, and the keys a state hashes.                *)
(***************************************************************************)
\* a | b on u8
RECURSIVE bit_or(_, _)
bit_or(a, b) ==
    IF a = 0 THEN b
    ELSE IF b = 0 THEN a
    ELSE 2 * bit_or(a \div 2, b \div 2) + (IF a % 2 = 1 \/ b % 2 = 1 THEN 1 ELSE 0)

\* (self.0 as u8) - b'A', as an integer: below 0 where the u8 subtraction overflows
hash_letter_value(key) == as_u8(key[1]) - 65

\* letter_value << 3 before the u8 drops the bits shifted out
hash_shifted(key) == hash_letter_value(key) * 8

\* the byte written to the hasher: (letter_value << 3) | self.1
hash_byte(key) == bit_or(hash_shifted(key) % 256, key[2])

\* the keys draw looks up: one for every char of current_guess_input that is
\* no bad character, at its byte offset; a get on an empty map hashes nothing
draw_lookup_keys ==
    IF Dispatching /\ DOMAIN known_positions # {}
    THEN LET ci == char_indices(current_guess_input)
         IN  {hashed_letter_index(ci[k][2], ci[k][1]) :
                  k \in {j \in 1..Len(ci) : ci[j][2] \notin bad_characters}}
    ELSE {}

\* the keys hashed so far by insert and those the next draw hashes
hashed_keys == DOMAIN known_positions \cup draw_lookup_keys

(***************************************************************************)
(* Sessions whose solution is not 5 long: main hands App whatever string   *)
(* the API answered, upper-cased, without a test of its length.            *)
(***************************************************************************)
BadSecretSessions ==
    { [solution |-> <<Char.A, Char.B>>,
       word_list |-> { Word(Char.A, Char.B, Char.C, Char.C, Char.C),
                       Word(Char.C, Char.C, Char.C, Char.A, Char.B) }],
      [solution |-> <<Char.A, Char.B, Char.C, Char.A, Char.B, Char.C>>,
       word_list |-> { Word(Char.A, Char.B, Char.C, Char.A, Char.B) }] }

InitBadSecret ==
    /\ \E s \in BadSecretSessions :
          /\ solution = s.solution
          /\ word_list = s.word_list
    /\ guesses = <<>>
    /\ known_positions = <<>>
    /\ bad_characters = {}
    /\ current_guess_input = <<>>
    /\ exit = FALSE
    /\ key_event = "None"
    /\ pc = "run"
    /\ play_state_written = FALSE

SpecBadSecret == InitBadSecret /\ [][Next]_vars

(***************************************************************************)
(* Scoring alone: every solution and every typed word over a small         *)
(* alphabet, and the pair ALLOY / LLAMA; the only event is Enter.          *)
(***************************************************************************)
NumEvalLetters == 3

EvalLetters == Char.A .. (Char.A + NumEvalLetters - 1)

EvalWords == [1..WordLen -> EvalLetters]

ALLOY == Word(Char.A, Char.L, Char.L, Char.O, Char.Y)

LLAMA == Word(Char.L, Char.L, Char.A, Char.M, Char.A)

InitEval ==
    /\ solution \in EvalWords \cup {ALLOY}
    /\ current_guess_input \in EvalWords \cup {LLAMA}
    /\ word_list = {solution, current_guess_input}
    /\ guesses = <<>>
    /\ known_positions = <<>>
    /\ bad_characters = {}
    /\ exit = FALSE
    /\ key_event = "Char"
    /\ pc = "run"
    /\ play_state_written = FALSE

NextEval == Enter

SpecEval == InitEval /\ [][NextEval]_vars

(***************************************************************************)
(* The reference two-pass evaluation: exact matches first, each consuming  *)
(* one occurrence from a pool of the secret's letters, then the remaining  *)
(* positions in ascending order, Present while the pool has the letter.    *)
(***************************************************************************)
RefPool(secret, guess) ==
    [l \in {guess[k] : k \in 1..Len(guess)} |->
        count_chars(secret, l)
        - Cardinality({k \in 1..Len(guess) : guess[k] = l /\ secret[k] = l})]

RECURSIVE RefPass2(_, _, _, _, _)
RefPass2(secret, guess, i, pool, verdicts) ==
    IF i > Len(guess) THEN verdicts
    ELSE IF guess[i] = secret[i]
         THEN RefPass2(secret, guess, i + 1, pool, Append(verdicts, "Correct"))
    ELSE IF pool[guess[i]] > 0
         THEN RefPass2(secret, guess, i + 1, [pool EXCEPT ![guess[i]] = @ - 1],
                       Append(verdicts, "Present"))
    ELSE RefPass2(secret, guess, i + 1, pool, Append(verdicts, "Absent"))

RefEvaluate(secret, guess) == RefPass2(secret, guess, 1, RefPool(secret, guess), <<>>)

\* the verdict a stored Option<LetterPosition> stands for
VerdictOf(opt) ==
    CASE opt = SomeCorrect -> "Correct"
      [] opt = SomeWrongPlacement -> "Present"
      [] OTHER -> "Absent"

GuessWord(guess) == [k \in 1..Len(guess) |-> guess[k][1]]

GuessVerdicts(guess) == [k \in 1..Len(guess) |-> VerdictOf(guess[k][2])]

IsUpperWord(w) == Len(w) = WordLen /\ \A k \in 1..Len(w) : w[k] \in 65..90

\* C1: for a 5-letter uppercase secret, the verdicts submit_guess stores for
\* every accepted 5-letter uppercase guess are those of the reference two-pass
\* algorithm (exact matches first, then leftovers to the leftmost positions).
C1_MatchesReference ==
    IsUpperWord(solution) =>
        \A n \in 1..Len(guesses) :
            IsUpperWord(GuessWord(guesses[n])) =>
                GuessVerdicts(guesses[n]) = RefEvaluate(solution, GuessWord(guesses[n]))

\* the case of the claim: ALLOY against LLAMA, scored
C1_Witness ==
    /\ solution = ALLOY
    /\ Len(guesses) = 1
    /\ GuessWord(guesses[1]) = LLAMA
    /\ GuessVerdicts(guesses[1]) = <<"Present", "Correct", "Present", "Absent", "Absent">>

Credited(guess, l) ==
    Cardinality({k \in 1..Len(guess) : guess[k][1] = l /\ guess[k][2] # OptNone})

\* C2: letter-count conservation: in every stored guess no letter has more
\* Correct and Present verdicts than the secret has occurrences of it.
C2_LetterCountConservation ==
    \A n \in 1..Len(guesses) :
        \A k \in 1..Len(guesses[n]) :
            Credited(guesses[n], guesses[n][k][1]) <= count_chars(solution, guesses[n][k][1])

\* a stored guess that holds a letter more often than the secret does, with
\* every occurrence of the secret credited and one left uncredited
C2_Witness ==
    \E n \in 1..Len(guesses) :
        \E k \in 1..Len(guesses[n]) :
            LET l == guesses[n][k][1]
            IN  /\ count_chars(GuessWord(guesses[n]), l) > count_chars(solution, l)
                /\ count_chars(solution, l) > 0
                /\ Credited(guesses[n], l) = count_chars(solution, l)
                /\ guesses[n][k][2] = OptNone

(***************************************************************************)
(* The session's properties.                                               *)
(***************************************************************************)
\* the step is handle_key_event's Enter arm: submit_guess ran
EnterStep == pc = "run" /\ pc' # "done" /\ key_event' = "Enter"

\* the input submit_guess accepts: 5 long and a member of the word list
ValidSubmission == StrLen(current_guess_input) = 5 /\ current_guess_input \in word_list

AllCorrect(guess) == \A k \in 1..Len(guess) : VerdictOf(guess[k][2]) = "Correct"

LastGuess(gs) == gs[Len(gs)]

\* C3: an accepted submission sets exit if and only if the guess it appended
\* is all Correct or is the sixth; the appended guess is all Correct exactly
\* when the submitted word is the secret, so the win test of the code
\* (eq_ignore_ascii_case) agrees with the all-Correct test.
C3_EndsIffWonOrSixth ==
    [][(EnterStep /\ ValidSubmission) =>
          /\ Len(guesses') = Len(guesses) + 1
          /\ exit' <=> (AllCorrect(LastGuess(guesses')) \/ Len(guesses') = 6)
          /\ AllCorrect(LastGuess(guesses')) <=> (current_guess_input = solution)
          /\ eq_ignore_ascii_case(solution, current_guess_input)
                <=> AllCorrect(LastGuess(guesses'))]_vars

\* a miss and then the secret: the second submission has just ended the session
C3_Witness ==
    /\ key_event = "Enter"
    /\ Len(guesses) = 2
    /\ ~AllCorrect(guesses[1])
    /\ AllCorrect(guesses[2])
    /\ exit

\* C4: a rejected submit (the input is not 5 long, or not in the word list)
\* changes none of guesses, current_guess_input, known_positions,
\* bad_characters and exit, however often it is repeated.
C4_RejectedSubmitIsNoOp ==
    [][(EnterStep /\ ~ValidSubmission) =>
          UNCHANGED <<guesses, current_guess_input, known_positions,
                      bad_characters, exit>>]_vars

\* Enter was the last event, on five letters that are no word of the list,
\* after a guess was recorded: the input is still there
C4_Witness ==
    /\ key_event = "Enter"
    /\ StrLen(current_guess_input) = 5
    /\ current_guess_input \notin word_list
    /\ guesses # <<>>
    /\ ~exit

\* C5: guesses is append-only: an accepted submit appends one guess of five
\* entries spelling the submitted input in order, leaves the stored guesses as
\* they were and empties current_guess_input; no other event changes guesses.
C5_GuessesAppendOnly ==
    [][/\ (EnterStep /\ ValidSubmission) =>
             /\ Len(guesses') = Len(guesses) + 1
             /\ SubSeq(guesses', 1, Len(guesses)) = guesses
             /\ Len(LastGuess(guesses')) = 5
             /\ GuessWord(LastGuess(guesses')) = current_guess_input
             /\ current_guess_input' = <<>>
       /\ (guesses' # guesses) => (EnterStep /\ ValidSubmission)]_vars

\* two different guesses are stored, the second just appended
C5_Witness ==
    /\ key_event = "Enter"
    /\ Len(guesses) = 2
    /\ guesses[1] # guesses[2]
    /\ current_guess_input = <<>>

\* C6: guesses never holds more than six guesses, whatever the events are.
C6_AtMostSixGuesses == Len(guesses) <= 6

\* six misses: the session has ended with six guesses stored
C6_Witness ==
    /\ Len(guesses) = 6
    /\ \A n \in 1..Len(guesses) : ~AllCorrect(guesses[n])
    /\ exit

\* C7: current_guess_input.len() <= 5 in every reachable state, where len is
\* String::len, for every alphabetic character typed, of any encoded width.
C7_InputLenAtMostFive == StrLen(current_guess_input) <= 5

Finished == guesses # <<>> /\ (Len(guesses) = 6 \/ AllCorrect(LastGuess(guesses)))

\* C8: once a winning guess or the sixth guess is recorded, no later step
\* changes guesses or current_guess_input.
C8_NoChangeAfterFinish ==
    [][Finished => UNCHANGED <<guesses, current_guess_input>>]_vars

\* the session finished and run has returned
C8_Witness == Finished /\ exit /\ pc = "done"

\* none < Absent < Present < Correct, of what color_from_known_information gives
Rank(opt) ==
    CASE opt = OptNone -> 0
      [] opt = SomeNone -> 1
      [] opt = SomeWrongPlacement -> 2
      [] opt = SomeCorrect -> 3

\* the characters and byte offsets a typed input can hold
QueryLetters == {to_ascii_uppercase(c) : c \in {k \in Keys : is_alphabetic(k)}}

QueryPositions == 0..4

\* C9: no step weakens what color_from_known_information attributes to any
\* (letter, position), in the order unknown < Absent < Present < Correct.
C9_KnowledgeMonotone ==
    [][\A l \in QueryLetters : \A p \in QueryPositions :
          Rank(known_information(bad_characters', known_positions', p, l))
              >= Rank(known_information(bad_characters, known_positions, p, l))]_vars

\* a letter is known Present at a position although a later guess, just
\* appended, holds it there unscored
C9_Witness ==
    /\ key_event = "Enter"
    /\ Len(guesses) >= 2
    /\ \E k \in 1..5 :
          /\ LastGuess(guesses)[k][2] = OptNone
          /\ known_information(bad_characters, known_positions, k - 1,
                               LastGuess(guesses)[k][1]) = SomeWrongPlacement

\* the letter was scored Correct or Present somewhere in the history
ScoredSomewhere(l) ==
    \E n \in 1..Len(guesses) : \E k \in 1..Len(guesses[n]) :
        guesses[n][k][1] = l /\ guesses[n][k][2] # OptNone

\* the letter was given this Option<LetterPosition> at this position (from 0)
ScoredAt(l, p, opt) ==
    \E n \in 1..Len(guesses) :
        p + 1 <= Len(guesses[n]) /\ guesses[n][p + 1] = <<l, opt>>

\* C10 as claimed: a letter scored Present or Correct anywhere is at least
\* Present at every position: Correct where it was scored Correct, Present
\* everywhere else.
C10_LetterWideVerdict ==
    \A l \in QueryLetters :
        ScoredSomewhere(l) =>
            \A p \in QueryPositions :
                known_information(bad_characters, known_positions, p, l) =
                    IF ScoredAt(l, p, SomeCorrect) THEN SomeCorrect ELSE SomeWrongPlacement

\* C10 as amended: a letter scored Present or Correct somewhere has, at a
\* queried position, the verdict it was scored with at that position
\* (Correct or Present) and is unknown at a position where it was never scored.
C10_PositionKeyedVerdict ==
    \A l \in QueryLetters :
        ScoredSomewhere(l) =>
            \A p \in QueryPositions :
                known_information(bad_characters, known_positions, p, l) =
                    IF ScoredAt(l, p, SomeCorrect) THEN SomeCorrect
                    ELSE IF ScoredAt(l, p, SomeWrongPlacement) THEN SomeWrongPlacement
                    ELSE OptNone

\* after two guesses a letter is Present at one position, Correct at another
\* and unknown at a third
C10_Witness ==
    /\ Len(guesses) >= 2
    /\ \E l \in QueryLetters : \E p, q, r \in QueryPositions :
          /\ known_information(bad_characters, known_positions, p, l) = SomeWrongPlacement
          /\ known_information(bad_characters, known_positions, q, l) = SomeCorrect
          /\ known_information(bad_characters, known_positions, r, l) = OptNone

\* the letter is a character of some stored guess
Guessed(l) ==
    \E n \in 1..Len(guesses) : \E k \in 1..Len(guesses[n]) : guesses[n][k][1] = l

\* C11: a letter that is in no accepted guess is unknown (None) at every
\* position, which is not the Absent verdict.
C11_UnguessedLetterUnknown ==
    \A l \in QueryLetters :
        ~Guessed(l) =>
            \A p \in QueryPositions :
                known_information(bad_characters, known_positions, p, l) = OptNone

\* guesses are stored, one letter is known Absent and another was never guessed
C11_Witness ==
    /\ Len(guesses) >= 2
    /\ bad_characters # {}
    /\ \E l \in QueryLetters : ~Guessed(l)

KnownCorrect(l, p) ==
    known_information(bad_characters, known_positions, p, l) = SomeCorrect

\* C12: Correct is attributed to (letter, position) if and only if a stored
\* guess has that letter at that position scored Correct, and a step never
\* takes the attribution away.
C12_CorrectIffScoredCorrect ==
    /\ [](\A l \in QueryLetters : \A p \in QueryPositions :
            KnownCorrect(l, p) <=> ScoredAt(l, p, SomeCorrect))
    /\ [][\A l \in QueryLetters : \A p \in QueryPositions :
            KnownCorrect(l, p) => KnownCorrect(l, p)']_vars

\* a letter scored Correct at a position in one guess is Present or unscored
\* at another position of a later guess, and is still known Correct
C12_Witness ==
    \E l \in QueryLetters : \E p, q \in QueryPositions :
        \E n, m \in 1..Len(guesses) :
            /\ n < m
            /\ guesses[n][p + 1] = <<l, SomeCorrect>>
            /\ guesses[m][q + 1][1] = l
            /\ guesses[m][q + 1][2] # SomeCorrect
            /\ KnownCorrect(l, p)

\* C13: a letter that is not in the secret and is in a stored guess is Absent
\* at every queried position.
C13_AbsentLetterEverywhere ==
    \A l \in QueryLetters :
        (~contains_letter(solution, l) /\ Guessed(l)) =>
            \A p \in QueryPositions :
                known_information(bad_characters, known_positions, p, l) = SomeNone

\* a letter the secret lacks was guessed at two positions in two guesses and
\* is Absent at a position where it was never guessed
C13_Witness ==
    \E l \in QueryLetters : \E p, q, r \in QueryPositions :
        /\ ~contains_letter(solution, l)
        /\ p # q
        /\ \E n, m \in 1..Len(guesses) :
              n # m /\ guesses[n][p + 1][1] = l /\ guesses[m][q + 1][1] = l
        /\ \A n \in 1..Len(guesses) : guesses[n][r + 1][1] # l
        /\ known_information(bad_characters, known_positions, r, l) = SomeNone

\* C14: TypeChar appends the upper-cased character exactly when the buffer is
\* shorter than 5 and the character is alphabetic, so that every character of
\* current_guess_input is an uppercase ASCII letter A-Z in every state.
C14_InputIsUppercaseAscii ==
    \A k \in 1..Len(current_guess_input) : current_guess_input[k] \in 65..90

\* the step is handle_key_event's Backspace arm
BackspaceStep == pc = "run" /\ pc' # "done" /\ key_event' = "Backspace"

\* the step is handle_key_event's Char arm
TypeCharStep == pc = "run" /\ pc' # "done" /\ key_event' = "Char"

DropLast(s) == [k \in 1..(Len(s) - 1) |-> s[k]]

\* what the claim says of Backspace itself
BackspaceRemovesLast ==
    BackspaceStep =>
        /\ current_guess_input # <<>> => current_guess_input' = DropLast(current_guess_input)
        /\ current_guess_input = <<>> => current_guess_input' = <<>>
        /\ UNCHANGED <<guesses, known_positions, bad_characters, exit>>

\* C15 as claimed: Backspace removes exactly the last character of a
\* non-empty buffer, does nothing to an empty one and changes nothing else;
\* a Backspace after any TypeChar gives the buffer that preceded the TypeChar.
C15_BackspaceUndoesAnyTypeChar ==
    [][/\ BackspaceRemovesLast
       /\ TypeCharStep =>
             IF current_guess_input' = <<>> THEN current_guess_input = <<>>
             ELSE DropLast(current_guess_input') = current_guess_input]_vars

\* C15 as amended: the same of Backspace; a Backspace after a TypeChar that
\* appended its character gives the buffer that preceded the TypeChar.
C15_BackspaceUndoesAppendedChar ==
    [][/\ BackspaceRemovesLast
       /\ (TypeCharStep /\ current_guess_input' # current_guess_input) =>
             DropLast(current_guess_input') = current_guess_input]_vars

\* Backspace has just removed a character and left one of two bytes last,
\* with a guess stored
C15_Witness ==
    /\ key_event = "Backspace"
    /\ guesses # <<>>
    /\ current_guess_input # <<>>
    /\ len_utf8(current_guess_input[Len(current_guess_input)]) = 2

\* C16: with a secret that is not 5 characters long, every accepted 5-letter
\* guess ends in a fatal error and no scored guess is appended.
C16_BadSecretIsFatal ==
    [][(Len(solution) # 5 /\ EnterStep /\ ValidSubmission) =>
          (pc' = "panicked" /\ guesses' = guesses)]_vars

RECURSIVE MaxCacheOfGuess(_, _, _)
MaxCacheOfGuess(cache, guess, k) ==
    IF k > Len(guess) THEN cache
    ELSE LET key == <<guess[k][1], k - 1>>
             candidate == guess[k][2]
             new == IF key \in DOMAIN cache /\ Rank(cache[key]) >= Rank(candidate)
                    THEN cache[key] ELSE candidate
         IN  MaxCacheOfGuess(
                 IF candidate = OptNone THEN cache
                 ELSE [x \in DOMAIN cache \cup {key} |-> IF x = key THEN new ELSE cache[x]],
                 guess, k + 1)

\* the cache kept with new = max(old, candidate) over the history
RECURSIVE MaxCache(_, _)
MaxCache(gs, n) ==
    IF n = 0 THEN <<>> ELSE MaxCacheOfGuess(MaxCache(gs, n - 1), gs[n], 1)

\* known_positions with its values as Option<LetterPosition>
KnownAsOptions == [key \in DOMAIN known_positions |-> map_get(known_positions, key)]

\* C17: the overwriting insert never replaces an entry by a different verdict,
\* and known_positions equals the cache kept with the rule max(old, candidate).
C17_OverwriteEqualsMax ==
    /\ [](KnownAsOptions = MaxCache(guesses, Len(guesses)))
    /\ [][\A key \in DOMAIN known_positions :
             /\ key \in DOMAIN known_positions'
             /\ known_positions'[key] = known_positions[key]]_vars

\* a (letter, position) scored in one guess is held by a later, different
\* guess too, scored or not: its key was a candidate twice
C17_Witness ==
    \E n, m \in 1..Len(guesses) : \E k \in 1..5 :
        /\ n < m
        /\ guesses[n] # guesses[m]
        /\ guesses[n][k][1] = guesses[m][k][1]
        /\ guesses[n][k][2] # OptNone
        /\ <<guesses[n][k][1], k - 1>> \in DOMAIN known_positions

\* C18: main records the day as played if and only if the session finished
\* (six guesses, or the last guess all Correct): an exit that submit_guess
\* caused is a finished session, and a Ctrl-C exit is not and records nothing.
C18_RecordedIffFinished ==
    /\ pc = "done" => (play_state_written <=> Finished)
    /\ pc # "done" => ~play_state_written
    /\ (exit /\ key_event = "Enter") => Finished
    /\ key_event = "CtrlC" => (exit /\ ~Finished /\ ~play_state_written)

\* Ctrl-C after two guesses: main returned and recorded nothing
C18_Witness ==
    /\ pc = "done"
    /\ key_event = "CtrlC"
    /\ Len(guesses) = 2
    /\ ~play_state_written

\* C19: the knowledge is sound: a bad character is not in the secret, a
\* Correct entry names the secret's letter at that position, a WrongPlacement
\* entry names a letter of the secret that is not at that position, and no
\* bad character is the letter of an entry.
C19_KnowledgeSound ==
    /\ \A l \in bad_characters : \A k \in 1..Len(solution) : solution[k] # l
    /\ \A key \in DOMAIN known_positions :
          /\ key[1] \notin bad_characters
          /\ known_positions[key] \in {"Correct", "WrongPlacement"}
          /\ known_positions[key] = "Correct" => solution[key[2] + 1] = key[1]
          /\ known_positions[key] = "WrongPlacement" =>
                /\ \E k \in 1..Len(solution) : solution[k] = key[1]
                /\ solution[key[2] + 1] # key[1]

\* a bad character, a Correct entry and a WrongPlacement entry are all known
C19_Witness ==
    /\ bad_characters # {}
    /\ \E key \in DOMAIN known_positions : known_positions[key] = "Correct"
    /\ \E key \in DOMAIN known_positions : known_positions[key] = "WrongPlacement"

\* C20: for every key hashed in a reachable state, (letter as u8) - b'A' does
\* not go below 0, (letter_value << 3) | position fits in 8 bits, and distinct
\* keys with positions 0..4 give distinct bytes.
C20_HashByteFitsAndDistinct ==
    /\ \A key \in hashed_keys :
          /\ hash_letter_value(key) >= 0
          /\ key[2] \in 0..4
          /\ bit_or(hash_shifted(key), key[2]) <= 255
    /\ \A key1, key2 \in hashed_keys :
          key1 # key2 => hash_byte(key1) # hash_byte(key2)

====
